---- MODULE Spec2Model ----
(***************************************************************************)
(* Request-time access-control guard of the creative studio application:  *)
(* the HTTP middleware set_request_context (src/main.py), the budget      *)
(* service it calls (src/models/budget.py) and the page handler that      *)
(* writes budget records (src/pages/budget_exceeded.py,                    *)
(* src/pages/access_restricted.py).                                        *)
(*                                                                         *)
(* Python strings that the code inspects character by character (request  *)
(* paths, the identity header) are tuples of one-character strings.        *)
(* Python values whose type the code tests are tagged records.             *)
(***************************************************************************)
EXTENDS Integers, Sequences, FiniteSets, TLC

VARIABLES
    users,      \* Firestore collection users:   email -> document
    budgets,    \* Firestore collection budgets: department -> document
    cfg,        \* config.Default: feature flag and billing identifiers
    req,        \* the HTTP request in flight, once the guard has evaluated it
    scope,      \* request.scope entries the guard stashed for that request
    calls,      \* external calls made by that evaluation, in order
    resp,       \* what the evaluation returned to the client
    hops,       \* redirects received in a row by a client following them
    page,       \* outcome of the page handler that ran last (PageState / navigation)
    click,      \* the user and the PageState fields that handler ran with
    status,     \* the last call of evaluate_budget: its lookups and what it returned
    oracle,     \* the last direct call of get_monthly_cloud_cost
    firebase    \* FirebaseClient: its class attributes and the threads inside it

vars == <<users, budgets, cfg, req, scope, calls, resp, hops, page, click, status, oracle,
          firebase>>

-----------------------------------------------------------------------------
(* Bounds of the model *)

MaxBudget == 2
MaxCost == 3
MaxHops == 3

-----------------------------------------------------------------------------
(* Python values *)

None == [t |-> "None"]
Str(s) == [t |-> "str", v |-> s]
PyInt(n) == [t |-> "int", v |-> n]
Num(n) == [t |-> "float", v |-> n]
NaN == [t |-> "nan"]
ValueError == [t |-> "ValueError"]

\* bool(x)
Truthy(x) ==
    CASE x.t = "None" -> FALSE
      [] x.t = "str" -> x.v # ""
      [] x.t = "int" -> x.v # 0
      [] x.t = "float" -> x.v # 0
      [] OTHER -> TRUE

\* a > b and a <= b on floats: every comparison with nan is False
PyGt(a, b) == a.t = "float" /\ b.t = "float" /\ a.v > b.v
PyLe(a, b) == a.t = "float" /\ b.t = "float" /\ a.v <= b.v

\* float(text) for the texts of the model: a decimal literal or "nan" parses,
\* anything else raises ValueError
ParseFloat(s) ==
    IF s = "nan" THEN NaN
    ELSE IF s = "-1" THEN Num(-1)
    ELSE IF \E n \in 0..(MaxBudget + 1) : ToString(n) = s
         THEN Num(CHOOSE n \in 0..(MaxBudget + 1) : ToString(n) = s)
         ELSE ValueError

\* float(x) of a stored field value
ToFloat(x) ==
    CASE x.t = "float" -> x
      [] x.t = "nan" -> x
      [] x.t = "int" -> Num(x.v)
      [] x.t = "str" -> ParseFloat(x.v)
      [] OTHER -> ValueError

-----------------------------------------------------------------------------
(* Character strings *)

StartsWith(s, p) == Len(s) >= Len(p) /\ SubSeq(s, 1, Len(p)) = p
EndsWith(s, e) == Len(s) >= Len(e) /\ SubSeq(s, Len(s) - Len(e) + 1, Len(s)) = e

UpperToLower ==
    ("A" :> "a") @@ ("B" :> "b") @@ ("C" :> "c") @@ ("D" :> "d") @@ ("E" :> "e") @@
    ("F" :> "f") @@ ("G" :> "g") @@ ("H" :> "h") @@ ("I" :> "i") @@ ("J" :> "j") @@
    ("K" :> "k") @@ ("L" :> "l") @@ ("M" :> "m") @@ ("N" :> "n") @@ ("O" :> "o") @@
    ("P" :> "p") @@ ("Q" :> "q") @@ ("R" :> "r") @@ ("S" :> "s") @@ ("T" :> "t") @@
    ("U" :> "u") @@ ("V" :> "v") @@ ("W" :> "w") @@ ("X" :> "x") @@ ("Y" :> "y") @@
    ("Z" :> "z")

\* str.lower()
Lower(s) ==
    [i \in 1..Len(s) |-> IF s[i] \in DOMAIN UpperToLower THEN UpperToLower[s[i]] ELSE s[i]]

\* s.split(":")[-1]: what follows the last colon, or all of s without one
RECURSIVE LastSegment(_)
LastSegment(s) ==
    IF \A i \in 1..Len(s) : s[i] # ":" THEN s
    ELSE LastSegment(Tail(s))

SETUP_URL == <<"/","s","e","t","u","p","_","d","e","p","a","r","t","m","e","n","t">>
BLOCKED_URL == <<"/","b","u","d","g","e","t","_","e","x","c","e","e","d","e","d">>
HEALTHZ == <<"/","h","e","a","l","t","h","z">>
ANONYMOUS == <<"a","n","o","n","y","m","o","u","s","@","g","o","o","g","l","e",".","c","o","m">>
PROVIDER_PREFIX == <<"a","c","c","o","u","n","t","s",".","g","o","o","g","l","e",".","c","o","m",":">>

public_prefixes == {
    <<"/","f","a","v","i","c","o","n",".","i","c","o">>,
    <<"/","s","t","a","t","i","c">>,
    <<"/","a","s","s","e","t","s">>,
    <<"/","_","_","w","e","b","-","c","o","m","p","o","n","e","n","t","s","-","m","o","d","u","l","e","_","_">>,
    <<"/","_","_","u","i","_","_">>,
    <<"/",".","w","e","l","l","-","k","n","o","w","n">>,
    <<"/","a","p","i","/">>,
    <<"/","a","u","t","h","/">>,
    <<"/","s","e","t","u","p","_","d","e","p","a","r","t","m","e","n","t">>,
    <<"/","b","u","d","g","e","t","_","e","x","c","e","e","d","e","d">> }

asset_exts == {
    <<".","j","s">>, <<".","m","j","s">>, <<".","c","s","s">>, <<".","m","a","p">>,
    <<".","j","s","o","n">>, <<".","p","n","g">>, <<".","j","p","g">>,
    <<".","j","p","e","g">>, <<".","g","i","f">>, <<".","s","v","g">>,
    <<".","i","c","o">>, <<".","w","o","f","f">>, <<".","w","o","f","f","2">>,
    <<".","t","t","f">>, <<".","e","o","t">>, <<".","w","a","s","m">>,
    <<".","w","e","b","p">>, <<".","m","p","4">>, <<".","w","e","b","m">> }

\* the redirect target of onboarding left out of the prefixes
is_public_prefix_NoOnboarding(path) ==
    \E p \in public_prefixes \ {SETUP_URL} : StartsWith(path, p)
\* the prefixes compared after lower-casing the path
is_public_prefix_CaseInsensitive(path) == \E p \in public_prefixes : StartsWith(Lower(path), p)
is_public_prefix(path) == \E p \in public_prefixes : StartsWith(path, p)
\* the extension compared without lower-casing the path
is_asset_request_CaseSensitive(path) == \E ext \in asset_exts : EndsWith(path, ext)
is_asset_request(path) == \E ext \in asset_exts : EndsWith(Lower(path), ext)

\* the guard's bypass condition
IsExempt(path) == is_public_prefix(path) \/ is_asset_request(path)

-----------------------------------------------------------------------------
(* Inputs and data of the model *)

EMAIL_A == <<"a","@","x">>

\* X-Goog-Authenticated-User-Email: absent, empty, plain, prefixed, prefixed
\* with a remainder that itself contains a colon, and the bare prefix
Headers == {
    [present |-> FALSE, value |-> <<>>],
    [present |-> TRUE, value |-> <<>>],
    [present |-> TRUE, value |-> EMAIL_A],
    [present |-> TRUE, value |-> PROVIDER_PREFIX \o EMAIL_A],
    [present |-> TRUE, value |-> PROVIDER_PREFIX \o <<"b",":">> \o EMAIL_A],
    [present |-> TRUE, value |-> PROVIDER_PREFIX] }

\* session_id cookie: absent, empty, or a token
Cookies == { None, Str(""), Str("c1") }

\* tokens uuid.uuid4() can return
Uuids == { "u1" }

\* request paths: guarded ones (the empty path, /home, /healthz, /api without
\* its slash), the two redirect targets, a static file, an API route, an
\* asset with an upper-case extension, a public prefix in upper case
Paths == {
    <<>>,
    <<"/","h","o","m","e">>,
    HEALTHZ,
    SETUP_URL,
    BLOCKED_URL,
    <<"/","s","t","a","t","i","c","/","a","p","p",".","j","s">>,
    <<"/","a","p","i","/","c","o","n","v","e","r","t","_","t","o","_","g","i","f">>,
    <<"/","a","p","i">>,
    <<"/","x",".","P","N","G">>,
    <<"/","A","P","I","/","x">> }

\* the requests clients send: every path without and with an identity, and
\* every identity and cookie on a guarded path
Requests ==
    { [path |-> p, header |-> h, cookie |-> Str("c1")] :
        p \in Paths, h \in { [present |-> FALSE, value |-> <<>>], [present |-> TRUE, value |-> EMAIL_A] } }
    \cup { [path |-> <<"/","h","o","m","e">>, header |-> h, cookie |-> c] : h \in Headers, c \in Cookies }

Emails == { ANONYMOUS, EMAIL_A }
\* the users that can have a document in the store
StoredEmails == { EMAIL_A }
Depts == { "Sales", "Eng" }

NoDoc == [exists |-> FALSE, field |-> None]
Doc(x) == [exists |-> TRUE, field |-> x]

\* users documents: none, no department field, a department that is not a
\* string, an empty one, a department
UserDocs == { NoDoc, Doc(None), Doc(PyInt(7)), Doc(Str("")) } \cup { Doc(Str(d)) : d \in Depts }

\* budgets documents an administrator can have put in the store: none, no
\* amount, an amount that is not a number, a positive amount
StoredBudgetDocs == { NoDoc, Doc(None), Doc(Str("abc")) } \cup { Doc(Num(n)) : n \in 1..MaxBudget }

Configs ==
    { c \in [ BUDGET_CHECK_ENABLED : BOOLEAN,
              BILLING_PROJECT_ID : {"", "bp"},
              PROJECT_ID : {"", "p"},
              BILLING_DATASET : {"", "ds"},
              BILLING_TABLE : {"", "tb"} ] :
        Cardinality({ f \in {"BILLING_PROJECT_ID", "PROJECT_ID", "BILLING_DATASET", "BILLING_TABLE"} :
                        c[f] = "" }) <= 1 }

-----------------------------------------------------------------------------
(* src/models/budget.py *)

\* outcome of one external call: it raised, or it returned v
Raised == [st |-> "raised", v |-> None]
Returned(x) == [st |-> "returned", v |-> x]
Skipped == [st |-> "skipped", v |-> None]

UserDoc(email) == IF email \in DOMAIN users THEN users[email] ELSE NoDoc
BudgetDoc(dept) == IF dept \in DOMAIN budgets THEN budgets[dept] ELSE NoDoc

get_user_department(email) ==
    LET doc == UserDoc(email)
        dept == doc.field
    IN  IF ~doc.exists THEN None
        ELSE IF dept.t = "str" /\ dept.v # "" THEN dept
        ELSE None

get_department_budget_in(store, department) ==
    LET doc == IF department.v \in DOMAIN store THEN store[department.v] ELSE NoDoc
        amount == doc.field
    IN  IF ~doc.exists THEN None
        ELSE IF amount = None THEN None
        ELSE IF ToFloat(amount) = ValueError THEN None
        ELSE ToFloat(amount)

get_department_budget(department) == get_department_budget_in(budgets, department)

\* what one BigQuery query does: fails, returns no row, or a row whose
\* total_cost is NULL or a number
QueryOutcomes ==
    { [r |-> "fail", total |-> None], [r |-> "norow", total |-> None], [r |-> "row", total |-> None] }
    \cup { [r |-> "row", total |-> Num(n)] : n \in 0..MaxCost }

BigQueryEnvs == [ client : {"ok", "raise"}, primary : QueryOutcomes, fallback : QueryOutcomes ]

QueryResult(o) ==
    IF o.r = "norow" THEN Num(0)
    ELSE IF o.total # None THEN o.total ELSE Num(0)

\* unavailable reported as soon as the primary query fails
get_monthly_cloud_cost_NoFallback(c, bq) ==
    LET billing_project == IF c.BILLING_PROJECT_ID # "" THEN c.BILLING_PROJECT_ID ELSE c.PROJECT_ID
        target_project == c.PROJECT_ID
    IN  IF ~(billing_project # "" /\ c.BILLING_DATASET # "" /\ c.BILLING_TABLE # "" /\ target_project # "")
        THEN [st |-> "returned", v |-> None, queries |-> <<>>]
        ELSE IF bq.client = "raise"
        THEN [st |-> "raised", v |-> None, queries |-> <<>>]
        ELSE IF bq.primary.r # "fail"
        THEN [st |-> "returned", v |-> QueryResult(bq.primary), queries |-> <<"primary">>]
        ELSE [st |-> "returned", v |-> None, queries |-> <<"primary">>]

\* the dataset identifier left out of the configuration test
get_monthly_cloud_cost_DatasetUnchecked(c, bq) ==
    LET billing_project == IF c.BILLING_PROJECT_ID # "" THEN c.BILLING_PROJECT_ID ELSE c.PROJECT_ID
        target_project == c.PROJECT_ID
    IN  IF ~(billing_project # "" /\ c.BILLING_TABLE # "" /\ target_project # "")
        THEN [st |-> "returned", v |-> None, queries |-> <<>>]
        ELSE IF bq.client = "raise"
        THEN [st |-> "raised", v |-> None, queries |-> <<>>]
        ELSE IF bq.primary.r # "fail"
        THEN [st |-> "returned", v |-> QueryResult(bq.primary), queries |-> <<"primary">>]
        ELSE IF bq.fallback.r # "fail"
        THEN [st |-> "returned", v |-> QueryResult(bq.fallback), queries |-> <<"primary", "fallback">>]
        ELSE [st |-> "returned", v |-> None, queries |-> <<"primary", "fallback">>]

\* get_monthly_cloud_cost() under configuration c and BigQuery behaviour bq:
\* the outcome and the queries issued
get_monthly_cloud_cost(c, bq) ==
    LET billing_project == IF c.BILLING_PROJECT_ID # "" THEN c.BILLING_PROJECT_ID ELSE c.PROJECT_ID
        target_project == c.PROJECT_ID
    IN  IF ~(billing_project # "" /\ c.BILLING_DATASET # "" /\ c.BILLING_TABLE # "" /\ target_project # "")
        THEN [st |-> "returned", v |-> None, queries |-> <<>>]
        ELSE IF bq.client = "raise"
        THEN [st |-> "raised", v |-> None, queries |-> <<>>]
        ELSE IF bq.primary.r # "fail"
        THEN [st |-> "returned", v |-> QueryResult(bq.primary), queries |-> <<"primary">>]
        ELSE IF bq.fallback.r # "fail"
        THEN [st |-> "returned", v |-> QueryResult(bq.fallback), queries |-> <<"primary", "fallback">>]
        ELSE [st |-> "returned", v |-> None, queries |-> <<"primary", "fallback">>]

\* the outcomes the three lookups can have in the current state; a backend
\* fault can make any of the Firestore reads raise
DeptLookups(email) == { Raised, Returned(get_user_department(email)) }
BudgetLookupsIn(store, dept) == { Raised, Returned(get_department_budget_in(store, dept)) }
BudgetLookups(dept) == BudgetLookupsIn(budgets, dept)
CostLookups == { get_monthly_cloud_cost(cfg, bq) : bq \in BigQueryEnvs }
CostSkipped == [st |-> "skipped", v |-> None, queries |-> <<>>]

-----------------------------------------------------------------------------
(* src/main.py *)

\* identity resolution of set_request_context
ResolveEmail(header) ==
    LET h0 == IF header.present /\ header.value # <<>> THEN header.value ELSE ANONYMOUS
    IN  IF StartsWith(h0, PROVIDER_PREFIX) THEN LastSegment(h0) ELSE h0

\* session_id = request.cookies.get("session_id") or str(uuid.uuid4())
\* a new token minted even when the request brings its cookie
SessionId_AlwaysMint(cookie, uuid) == uuid
SessionId(cookie, uuid) == IF Truthy(cookie) THEN cookie.v ELSE uuid

\* the route the request reaches behind the middleware: /healthz answers
\* {"ok": true}; any other handler answers its page or file, or raises
HealthzBody == "{\"ok\": true}"
call_next(path) ==
    IF path = HEALTHZ THEN { Returned(Str(HealthzBody)) }
    ELSE { Returned(Str("page")), Raised }

RedirectResponse(url) ==
    [kind |-> "redirect", status |-> 302, url |-> url, cookie |-> None, body |-> None]
PassResponse(body, session_id) ==
    [kind |-> "response", status |-> 200, url |-> <<>>, cookie |-> Str(session_id), body |-> body]
\* an exception of the downstream handler leaves the middleware
ExceptionResponse ==
    [kind |-> "exception", status |-> 500, url |-> <<>>, cookie |-> None, body |-> None]
NoResponse ==
    [kind |-> "none", status |-> 0, url |-> <<>>, cookie |-> None, body |-> None]

\* no evaluate_budget call and no direct oracle call on record
NoStatus ==
    [caller |-> "none", email |-> <<>>, trace |-> <<>>, dept |-> Skipped, budget |-> Skipped,
     cost |-> Skipped, result |-> Skipped, again |-> Skipped]
NoOracle ==
    [called |-> FALSE, client |-> "ok", primary |-> [r |-> "fail", total |-> None],
     fallback |-> [r |-> "fail", total |-> None],
     result |-> [st |-> "skipped", v |-> None, queries |-> <<>>]]
NoClick == [email |-> <<>>, role |-> None, selected_department |-> None, selected_role |-> None,
            new_budget_input |-> "", fault |-> FALSE]

\* what a page handler left behind: the error dialog, or a navigation
NoPage == [handler |-> "none", error_dialog_open |-> FALSE, error_message |-> "", navigate |-> ""]
ErrorDialog(h, msg) == [handler |-> h, error_dialog_open |-> TRUE, error_message |-> msg, navigate |-> ""]
Navigated(h, url) == [handler |-> h, error_dialog_open |-> FALSE, error_message |-> "", navigate |-> url]

\* no request in flight and no handler outcome on display
Idle == resp = NoResponse /\ page = NoPage /\ status = NoStatus /\ ~oracle.called

\* does the guard reach the budget lookup / the cost lookup, given what the
\* earlier lookups gave
\* the budget check made whatever the feature flag says
BudgetLookupReached_NoFlag(exempt, d) ==
    ~exempt /\ d.st = "returned" /\ Truthy(d.v)
BudgetLookupReached(exempt, d) ==
    ~exempt /\ d.st = "returned" /\ Truthy(d.v) /\ cfg.BUDGET_CHECK_ENABLED
CostLookupReached(exempt, d, b) ==
    BudgetLookupReached(exempt, d) /\ b.st = "returned" /\ b.v # None

\* the branch set_request_context takes: "setup" and "blocked" are its two
\* redirects, "next" is call_next
\* the department check placed under the feature flag
GuardDecision_DeptUnderFlag(exempt, d, b, c) ==
    IF exempt THEN "next"
    ELSE IF ~cfg.BUDGET_CHECK_ENABLED THEN "next"
    ELSE IF d.st = "raised" THEN "setup"
    ELSE IF ~Truthy(d.v) THEN "setup"
    ELSE IF b.st = "raised" THEN "blocked"
    ELSE IF b.v = None THEN "blocked"
    ELSE IF c.st = "raised" THEN "blocked"
    ELSE IF c.v = None THEN "blocked"
    ELSE IF PyGt(c.v, ToFloat(b.v)) THEN "blocked"
    ELSE "next"

\* a department without a budget record treated as unlimited
GuardDecision_MissingBudgetPasses(exempt, d, b, c) ==
    IF exempt THEN "next"
    ELSE IF d.st = "raised" THEN "setup"
    ELSE IF ~Truthy(d.v) THEN "setup"
    ELSE IF ~cfg.BUDGET_CHECK_ENABLED THEN "next"
    ELSE IF b.st = "raised" THEN "blocked"
    ELSE IF b.v = None THEN "next"
    ELSE IF c.st = "raised" THEN "blocked"
    ELSE IF c.v = None THEN "blocked"
    ELSE IF PyGt(c.v, ToFloat(b.v)) THEN "blocked"
    ELSE "next"

\* an unavailable cost not tested: the comparison with None is not "over"
GuardDecision_CostUnavailablePasses(exempt, d, b, c) ==
    IF exempt THEN "next"
    ELSE IF d.st = "raised" THEN "setup"
    ELSE IF ~Truthy(d.v) THEN "setup"
    ELSE IF ~cfg.BUDGET_CHECK_ENABLED THEN "next"
    ELSE IF b.st = "raised" THEN "blocked"
    ELSE IF b.v = None THEN "blocked"
    ELSE IF c.st = "raised" THEN "blocked"
    ELSE IF c.v = None THEN "next"
    ELSE IF PyGt(c.v, ToFloat(b.v)) THEN "blocked"
    ELSE "next"

\* a fault of the budget evaluation swallowed instead of redirected
GuardDecision_FaultPasses(exempt, d, b, c) ==
    IF exempt THEN "next"
    ELSE IF d.st = "raised" THEN "setup"
    ELSE IF ~Truthy(d.v) THEN "setup"
    ELSE IF ~cfg.BUDGET_CHECK_ENABLED THEN "next"
    ELSE IF b.st = "raised" THEN "next"
    ELSE IF b.v = None THEN "blocked"
    ELSE IF c.st = "raised" THEN "next"
    ELSE IF c.v = None THEN "blocked"
    ELSE IF PyGt(c.v, ToFloat(b.v)) THEN "blocked"
    ELSE "next"

GuardDecision(exempt, d, b, c) ==
    IF exempt THEN "next"
    ELSE IF d.st = "raised" THEN "setup"
    ELSE IF ~Truthy(d.v) THEN "setup"
    ELSE IF ~cfg.BUDGET_CHECK_ENABLED THEN "next"
    ELSE IF b.st = "raised" THEN "blocked"
    ELSE IF b.v = None THEN "blocked"
    ELSE IF c.st = "raised" THEN "blocked"
    ELSE IF c.v = None THEN "blocked"
    ELSE IF PyGt(c.v, ToFloat(b.v)) THEN "blocked"
    ELSE "next"

CallTrace(d, b, c, n) ==
    (IF d.st # "skipped" THEN <<"get_user_department">> ELSE <<>>)
    \o (IF b.st # "skipped" THEN <<"get_department_budget">> ELSE <<>>)
    \o (IF c.st # "skipped" THEN <<"get_monthly_cloud_cost">> ELSE <<>>)
    \o (IF n.st # "skipped" THEN <<"call_next">> ELSE <<>>)

\* one evaluation of the middleware for a request
set_request_context(rawPath, header, cookie, via) ==
    LET path == IF rawPath = <<>> THEN <<"/">> ELSE rawPath
        exempt == IsExempt(path)
        user_email == ResolveEmail(header)
    IN  \E uuid \in Uuids :
        \E d \in (IF exempt THEN {Skipped} ELSE DeptLookups(user_email)) :
        \E b \in (IF BudgetLookupReached(exempt, d) THEN BudgetLookups(d.v) ELSE {Skipped}) :
        \E c \in (IF CostLookupReached(exempt, d, b) THEN CostLookups ELSE {CostSkipped}) :
        LET session_id == SessionId(cookie, uuid)
            decision == GuardDecision(exempt, d, b, c)
        IN  \E n \in (IF decision = "next" THEN call_next(path) ELSE {Skipped}) :
            /\ req' = [path |-> path, header |-> header, cookie |-> cookie, via |-> via]
            /\ scope' = [MESOP_USER_EMAIL |-> user_email, MESOP_SESSION_ID |-> session_id]
            /\ calls' = [trace |-> CallTrace(d, b, c, n), dept |-> d, budget |-> b,
                         cost |-> [st |-> c.st, v |-> c.v]]
            /\ resp' = CASE decision = "setup" -> RedirectResponse(SETUP_URL)
                         [] decision = "blocked" -> RedirectResponse(BLOCKED_URL)
                         [] n.st = "raised" -> ExceptionResponse
                         [] OTHER -> PassResponse(n.v, session_id)
            /\ hops' = (IF via = "follow" THEN hops ELSE 0)
                       + (IF decision \in {"setup", "blocked"} THEN 1 ELSE 0)
            /\ UNCHANGED <<users, budgets, cfg, page, click, status, oracle, firebase>>

\* a client sends a request
HandleRequest ==
    /\ Idle
    /\ \E r \in Requests : set_request_context(r.path, r.header, r.cookie, "direct")

\* a client that was redirected by the guard requests the redirect's target,
\* with the same header and cookies (a redirect sets no cookie)
FollowRedirect ==
    /\ resp.kind = "redirect"
    /\ hops < MaxHops
    /\ set_request_context(resp.url, req.header, req.cookie, "follow")

-----------------------------------------------------------------------------
(* src/pages/budget_exceeded.py, src/pages/access_restricted.py *)

\* texts a user can have typed into the budget field
BudgetInputs == { "", "abc", "nan", "-1" } \cup { ToString(n) : n \in 0..MaxBudget }

\* an unavailable cost reported as a status that is within budget
evaluate_budget_CostUnavailableWithin(email, d, b, c) ==
    IF d.st = "raised" THEN Raised
    ELSE IF ~Truthy(d.v) THEN
        Returned([email |-> email, department |-> None, budget |-> None, monthly_cost |-> None,
                  within_budget |-> None, error |-> Str("missing_user")])
    ELSE IF b.st = "raised" THEN Raised
    ELSE IF b.v = None THEN
        Returned([email |-> email, department |-> d.v, budget |-> None, monthly_cost |-> None,
                  within_budget |-> None, error |-> Str("missing_budget")])
    ELSE IF c.st = "raised" THEN Raised
    ELSE IF c.v = None THEN
        Returned([email |-> email, department |-> d.v, budget |-> b.v, monthly_cost |-> None,
                  within_budget |-> [t |-> "bool", v |-> TRUE], error |-> Str("cost_unavailable")])
    ELSE
        Returned([email |-> email, department |-> d.v, budget |-> b.v, monthly_cost |-> c.v,
                  within_budget |-> [t |-> "bool", v |-> PyLe(c.v, b.v)], error |-> None])

\* BudgetStatus of evaluate_budget(email) from the outcomes d, b, c of its
\* lookups; "raised" when one of them raised
evaluate_budget(email, d, b, c) ==
    IF d.st = "raised" THEN Raised
    ELSE IF ~Truthy(d.v) THEN
        Returned([email |-> email, department |-> None, budget |-> None, monthly_cost |-> None,
                  within_budget |-> None, error |-> Str("missing_user")])
    ELSE IF b.st = "raised" THEN Raised
    ELSE IF b.v = None THEN
        Returned([email |-> email, department |-> d.v, budget |-> None, monthly_cost |-> None,
                  within_budget |-> None, error |-> Str("missing_budget")])
    ELSE IF c.st = "raised" THEN Raised
    ELSE IF c.v = None THEN
        Returned([email |-> email, department |-> d.v, budget |-> b.v, monthly_cost |-> None,
                  within_budget |-> None, error |-> Str("cost_unavailable")])
    ELSE
        Returned([email |-> email, department |-> d.v, budget |-> b.v, monthly_cost |-> c.v,
                  within_budget |-> [t |-> "bool", v |-> PyLe(c.v, b.v)], error |-> None])

\* evaluate_budget goes on to the budget lookup only with a department, and
\* on to the cost oracle only with a budget
EvalBudgetLookupReached(d) == d.st = "returned" /\ Truthy(d.v)
\* the cost oracle asked whatever the budget lookup returned
EvalCostLookupReached_BudgetIgnored(d, b) == b.st = "returned"
EvalCostLookupReached(d, b) == b.st = "returned" /\ b.v # None

\* the lookups one call of evaluate_budget(email) makes against the budget
\* store given, and their outcomes
Evaluations(store, email) ==
    UNION { UNION { { [d |-> d, b |-> b, c |-> c] :
                        c \in (IF EvalCostLookupReached(d, b) THEN CostLookups ELSE {CostSkipped}) } :
                    b \in (IF EvalBudgetLookupReached(d)
                           THEN BudgetLookupsIn(store, d.v) ELSE {Skipped}) } :
            d \in DeptLookups(email) }

\* the calls of one evaluation, in the order evaluate_budget makes them
EvalTrace(l) ==
    (IF l.d.st # "skipped" THEN <<"get_user_department">> ELSE <<>>)
    \o (IF l.b.st # "skipped" THEN <<"get_department_budget">> ELSE <<>>)
    \o (IF l.c.st # "skipped" THEN <<"get_monthly_cloud_cost">> ELSE <<>>)

\* the record of one call of evaluate_budget(email) made by caller
StatusOf(caller, email, l) ==
    [caller |-> caller, email |-> email, trace |-> EvalTrace(l), dept |-> l.d, budget |-> l.b,
     cost |-> [st |-> l.c.st, v |-> l.c.v],
     result |-> evaluate_budget(email, l.d, l.b, l.c), again |-> Skipped]

\* Update Budget on the blocked page (pg = "budget_exceeded", which goes to
\* /home) or on the access page (pg = "access_restricted", to /welcome), clicked
\* by a user of the given role; the handler reads neither the role nor anything
\* else about the user but the email
on_click_update_budget(pg, user_email, role, selected_department, new_budget_input) ==
    LET amount == ParseFloat(new_budget_input)
        written == [d \in DOMAIN budgets \cup {selected_department.v} |->
                       IF d = selected_department.v THEN Doc(amount) ELSE budgets[d]]
        State(fault) == [email |-> user_email, role |-> role,
                         selected_department |-> selected_department,
                         selected_role |-> None, new_budget_input |-> new_budget_input,
                         fault |-> fault]
    IN  IF ~Truthy(selected_department) THEN
            /\ page' = ErrorDialog(pg, "Please choose a department.")
            /\ click' = State(FALSE)
            /\ UNCHANGED <<budgets, status>>
        ELSE IF amount = ValueError \/ PyLe(amount, Num(0)) THEN
            /\ page' = ErrorDialog(pg, "Failed to update budget")
            /\ click' = State(FALSE)
            /\ UNCHANGED <<budgets, status>>
        ELSE
            \E w \in {"ok", "raise"} :
                IF w = "raise" THEN
                    \* set_department_budget raised
                    /\ page' = ErrorDialog(pg, "Failed to update budget")
                    /\ click' = State(TRUE)
                    /\ UNCHANGED <<budgets, status>>
                ELSE
                    /\ budgets' = written
                    /\ click' = State(FALSE)
                    /\ \E l \in Evaluations(written, user_email) :
                       LET st == evaluate_budget(user_email, l.d, l.b, l.c)
                       IN  /\ status' = StatusOf(pg, user_email, l)
                           /\ page' =
                                IF st.st = "raised" THEN ErrorDialog(pg, "Failed to update budget")
                                ELSE IF st.v.within_budget # None /\ st.v.within_budget.v
                                THEN Navigated(pg, IF pg = "budget_exceeded" THEN "/home" ELSE "/welcome")
                                ELSE Navigated(pg, "")

\* the roles onboarding offers
Roles == {"admin", "member"}

\* a signed-in user clicks Update Budget
ClickUpdateBudget ==
    /\ Idle
    /\ \E pg \in {"budget_exceeded", "access_restricted"}, email \in Emails,
       role \in { Str(r) : r \in Roles },
       dep \in {None} \cup { Str(d) : d \in Depts }, txt \in BudgetInputs :
        /\ on_click_update_budget(pg, email, role, dep, txt)
        /\ UNCHANGED <<users, cfg, req, scope, calls, resp, hops, oracle, firebase>>

\* def upsert_user_department(email, department): the positional parameters
\* the function takes, and the arguments on_click_save passes to it
on_click_save_args == 3
\* a function that takes the role as well, as the handler calls it
upsert_user_department_params_AsCalled == on_click_save_args
upsert_user_department_params == 2

\* the users collection after upsert_user_department(email, department)
upsert_user_department(email, department) ==
    [e \in DOMAIN users \cup {email} |-> IF e = email THEN Doc(department) ELSE users[e]]

\* Save on the onboarding page
on_click_save(user_email, selected_department, selected_role) ==
    LET State(fault) == [email |-> user_email, role |-> selected_role,
                         selected_department |-> selected_department,
                         selected_role |-> selected_role, new_budget_input |-> "",
                         fault |-> fault]
    IN  IF ~Truthy(selected_department) THEN
            /\ page' = ErrorDialog("setup_department", "Please select a department.")
            /\ click' = State(FALSE)
            /\ UNCHANGED <<users, status>>
        ELSE IF ~Truthy(selected_role) THEN
            /\ page' = ErrorDialog("setup_department", "Please select a project role.")
            /\ click' = State(FALSE)
            /\ UNCHANGED <<users, status>>
        ELSE IF on_click_save_args # upsert_user_department_params THEN
            \* the call itself raises TypeError, which except Exception catches
            /\ page' = ErrorDialog("setup_department", "Failed to save department")
            /\ click' = State(FALSE)
            /\ UNCHANGED <<users, status>>
        ELSE
            \E w \in {"ok", "raise"} :
                IF w = "raise" THEN
                    /\ page' = ErrorDialog("setup_department", "Failed to save department")
                    /\ click' = State(TRUE)
                    /\ UNCHANGED <<users, status>>
                ELSE
                    /\ users' = upsert_user_department(user_email, selected_department)
                    /\ click' = State(FALSE)
                    /\ \E d \in {Raised, Returned(selected_department)} :
                       \E b \in (IF EvalBudgetLookupReached(d)
                                 THEN BudgetLookups(selected_department) ELSE {Skipped}) :
                       \E c \in (IF EvalCostLookupReached(d, b) THEN CostLookups ELSE {CostSkipped}) :
                       LET l == [d |-> d, b |-> b, c |-> c]
                           st == evaluate_budget(user_email, l.d, l.b, l.c)
                       IN  /\ status' = StatusOf("setup_department", user_email, l)
                           /\ page' =
                                IF st.st = "raised"
                                THEN ErrorDialog("setup_department", "Failed to save department")
                                ELSE IF st.v.error = Str("missing_budget")
                                        \/ (st.v.within_budget # None /\ ~st.v.within_budget.v)
                                THEN Navigated("setup_department", "/budget_exceeded")
                                ELSE Navigated("setup_department", "/home")

\* a user clicks Save on /setup_department
ClickSave ==
    /\ Idle
    /\ \E email \in Emails, dep \in {None} \cup { Str(d) : d \in Depts },
       role \in {None} \cup { Str(r) : r \in Roles } :
        /\ on_click_save(email, dep, role)
        /\ UNCHANGED <<budgets, cfg, req, scope, calls, resp, hops, oracle, firebase>>

\* an evaluation that creates the budget record it did not find
EvaluateBudget_CreatesBudget ==
    /\ Idle
    /\ \E email \in Emails :
       \E l \in Evaluations(budgets, email) :
        /\ status' = StatusOf("evaluate_budget", email, l)
        /\ budgets' = IF l.b.st = "returned" /\ l.b.v = None
                      THEN [budgets EXCEPT ![l.d.v.v] = Doc(Num(1))] ELSE budgets
    /\ UNCHANGED <<users, cfg, req, scope, calls, resp, hops, page, click, oracle, firebase>>

\* a caller evaluates the budget status of a user: evaluate_budget(email)
EvaluateBudget ==
    /\ Idle
    /\ \E email \in Emails :
       \E l \in Evaluations(budgets, email) :
        status' = StatusOf("evaluate_budget", email, l)
    /\ UNCHANGED <<users, budgets, cfg, req, scope, calls, resp, hops, page, click, oracle, firebase>>

\* the caller evaluates the same user again, nothing having been written in
\* between and the cost oracle answering as it did
ReEvaluate ==
    /\ status.caller # "none" /\ status.again = Skipped
    /\ \E l \in Evaluations(budgets, status.email) :
        /\ status.cost.st # "skipped" /\ l.c.st # "skipped"
            => l.c.st = status.cost.st /\ l.c.v = status.cost.v
        /\ status' = [status EXCEPT !.again = evaluate_budget(status.email, l.d, l.b, l.c)]
    /\ UNCHANGED <<users, budgets, cfg, req, scope, calls, resp, hops, page, click, oracle, firebase>>

\* a direct call of get_monthly_cloud_cost() against a BigQuery that behaves as bq
QueryMonthlyCost ==
    /\ Idle
    /\ \E bq \in BigQueryEnvs :
        oracle' = [called |-> TRUE, client |-> bq.client, primary |-> bq.primary,
                   fallback |-> bq.fallback, result |-> get_monthly_cloud_cost(cfg, bq)]
    /\ UNCHANGED <<users, budgets, cfg, req, scope, calls, resp, hops, page, click, status,
                   firebase>>

-----------------------------------------------------------------------------
(* src/config/firebase_config.py *)

\* request threads that can be inside FirebaseClient at the same time
Threads == {"t1", "t2"}

\* database ids callers pass: none, an empty one, the budgets database
DatabaseIds == { None, Str(""), Str("budgets") }
DEFAULT_DB == "(default)"
CacheKeys == { DEFAULT_DB, "budgets" }

\* no Firestore client: dict.get found nothing
NoClient == 0

\* the class as loaded, every thread outside it
FirebaseLoaded ==
    [_app_initialized |-> FALSE,
     _clients |-> [k \in CacheKeys |-> NoClient],
     initialize_app_calls |-> 0,
     created |-> [k \in CacheKeys |-> 0],
     pc |-> [t \in Threads |-> "idle"],
     database_id |-> [t \in Threads |-> None],
     _database_id |-> [t \in Threads |-> DEFAULT_DB],
     client |-> [t \in Threads |-> NoClient],
     returned |-> [t \in Threads |-> NoClient]]

OthersUnchanged ==
    UNCHANGED <<users, budgets, cfg, req, scope, calls, resp, hops, page, click, status, oracle>>

\* FirebaseClient(database_id): self._database_id = database_id or "(default)"
Construct(t) ==
    /\ firebase.pc[t] = "idle"
    /\ \E database_id \in DatabaseIds :
        firebase' = [firebase EXCEPT
                       !.database_id[t] = database_id,
                       !._database_id[t] = IF Truthy(database_id) THEN database_id.v ELSE DEFAULT_DB,
                       !.pc[t] = "test_initialized"]
    /\ OthersUnchanged

\* if not FirebaseClient._app_initialized:
TestInitialized(t) ==
    /\ firebase.pc[t] = "test_initialized"
    /\ firebase' = [firebase EXCEPT
                      !.pc[t] = IF firebase._app_initialized THEN "get_client" ELSE "initialize_app"]
    /\ OthersUnchanged

\* firebase_admin.initialize_app(cred, ...); a ValueError (already initialized)
\* is swallowed
InitializeApp(t) ==
    /\ firebase.pc[t] = "initialize_app"
    /\ firebase' = [firebase EXCEPT
                      !.initialize_app_calls = @ + 1,
                      !.pc[t] = "set_initialized"]
    /\ OthersUnchanged

\* FirebaseClient._app_initialized = True
SetInitialized(t) ==
    /\ firebase.pc[t] = "set_initialized"
    /\ firebase' = [firebase EXCEPT !._app_initialized = TRUE, !.pc[t] = "get_client"]
    /\ OthersUnchanged

\* get_client: client = FirebaseClient._clients.get(db_id); if client is None:
ReadCache(t) ==
    /\ firebase.pc[t] = "get_client"
    /\ LET cached == firebase._clients[firebase._database_id[t]]
       IN  firebase' = [firebase EXCEPT
                          !.client[t] = cached,
                          !.pc[t] = IF cached = NoClient THEN "create" ELSE "return"]
    /\ OthersUnchanged

\* client = firestore.client(database_id=db_id): a client of its own for this
\* call, or, where the library keeps one per database, the one it made before
CreateClient(t) ==
    /\ firebase.pc[t] = "create"
    /\ LET db == firebase._database_id[t]
       IN  \E fresh \in (IF firebase.created[db] = 0 THEN {TRUE} ELSE BOOLEAN) :
            firebase' = [firebase EXCEPT
                           !.created[db] = IF fresh THEN @ + 1 ELSE @,
                           !.client[t] = IF fresh THEN firebase.created[db] + 1
                                         ELSE firebase.created[db],
                           !.pc[t] = "store"]
    /\ OthersUnchanged

\* FirebaseClient._clients[db_id] = client
StoreClient(t) ==
    /\ firebase.pc[t] = "store"
    /\ firebase' = [firebase EXCEPT
                      !._clients[firebase._database_id[t]] = firebase.client[t],
                      !.pc[t] = "return"]
    /\ OthersUnchanged

\* return client
ReturnClient(t) ==
    /\ firebase.pc[t] = "return"
    /\ firebase' = [firebase EXCEPT !.returned[t] = firebase.client[t], !.pc[t] = "done"]
    /\ OthersUnchanged

\* one step of the threads that run _budget_db(), in any interleaving
NextFirebase ==
    \/ \E t \in Threads : Construct(t)
    \/ \E t \in Threads : TestInitialized(t)
    \/ \E t \in Threads : InitializeApp(t)
    \/ \E t \in Threads : SetInitialized(t)
    \/ \E t \in Threads : ReadCache(t)
    \/ \E t \in Threads : CreateClient(t)
    \/ \E t \in Threads : StoreClient(t)
    \/ \E t \in Threads : ReturnClient(t)

-----------------------------------------------------------------------------

NoRequest ==
    [path |-> <<"/">>, header |-> [present |-> FALSE, value |-> <<>>], cookie |-> None, via |-> "none"]
NoScope == [MESOP_USER_EMAIL |-> <<>>, MESOP_SESSION_ID |-> ""]
NoCalls == [trace |-> <<>>, dept |-> Skipped, budget |-> Skipped, cost |-> Skipped]

\* the response has reached the client, the page has rendered, or the call
\* has returned: the server is ready for the next event
Complete ==
    /\ ~Idle
    /\ req' = NoRequest
    /\ scope' = NoScope
    /\ calls' = NoCalls
    /\ resp' = NoResponse
    /\ hops' = 0
    /\ page' = NoPage
    /\ click' = NoClick
    /\ status' = NoStatus
    /\ oracle' = NoOracle
    /\ UNCHANGED <<users, budgets, cfg, firebase>>

\* every configuration of the billing export, for the study of the oracle
AllConfigs ==
    [ BUDGET_CHECK_ENABLED : BOOLEAN,
      BILLING_PROJECT_ID : {"", "bp"},
      PROJECT_ID : {"", "p"},
      BILLING_DATASET : {"", "ds"},
      BILLING_TABLE : {"", "tb"} ]

Quiet ==
    /\ req = NoRequest
    /\ scope = NoScope
    /\ calls = NoCalls
    /\ resp = NoResponse
    /\ hops = 0
    /\ page = NoPage
    /\ click = NoClick
    /\ status = NoStatus
    /\ oracle = NoOracle
    /\ firebase = FirebaseLoaded

Init ==
    /\ users \in [StoredEmails -> UserDocs]
    /\ budgets \in [Depts -> StoredBudgetDocs]
    /\ cfg \in Configs
    /\ Quiet

Next ==
    \/ HandleRequest
    \/ FollowRedirect
    \/ ClickUpdateBudget
    \/ ClickSave
    \/ EvaluateBudget
    \/ ReEvaluate
    \/ Complete

Spec == Init /\ [][Next]_vars

\* the cost oracle under every configuration, for one onboarded user whose
\* department has a budget
InitOracle ==
    /\ users = [e \in StoredEmails |-> Doc(Str("Sales"))]
    /\ budgets = [d \in Depts |-> IF d = "Sales" THEN Doc(Num(1)) ELSE NoDoc]
    /\ cfg \in AllConfigs
    /\ Quiet

NextOracle ==
    \/ QueryMonthlyCost
    \/ EvaluateBudget
    \/ HandleRequest
    \/ FollowRedirect
    \/ Complete

SpecOracle == InitOracle /\ [][NextOracle]_vars

\* the client cache alone, the stores being of no account
InitFirebase ==
    /\ users = [e \in StoredEmails |-> NoDoc]
    /\ budgets = [d \in Depts |-> NoDoc]
    /\ cfg = [BUDGET_CHECK_ENABLED |-> TRUE, BILLING_PROJECT_ID |-> "bp", PROJECT_ID |-> "p",
              BILLING_DATASET |-> "ds", BILLING_TABLE |-> "tb"]
    /\ Quiet

SpecFirebase == InitFirebase /\ [][NextFirebase]_vars

-----------------------------------------------------------------------------
(* Properties of the guard *)

\* the guard has evaluated the request in flight
Evaluated == resp.kind # "none"

\* the evaluation made the call named f
Called(f) == \E i \in DOMAIN calls.trace : calls.trace[i] = f

\* the path starts with a public prefix or ends with an asset extension
ExemptPath(path) ==
    \/ \E p \in public_prefixes : StartsWith(path, p)
    \/ \E e \in asset_exts : EndsWith(Lower(path), e)

Guarded == Evaluated /\ ~ExemptPath(req.path)

RedirectedTo(url) == resp.kind = "redirect" /\ resp.status = 302 /\ resp.url = url

\* the department and the budget the stores hold for the request's user
StoredDepartment == get_user_department(scope.MESOP_USER_EMAIL)
StoredBudget == get_department_budget(StoredDepartment)

\* C1: a guarded request of a user whose email has no department (no record,
\* or a department field that is missing, not a string, or empty) is answered
\* by a 302 to /setup_department and never reaches the downstream handler,
\* with budget enforcement on or off.
C1_NoDepartmentRedirectsToSetup ==
    (Guarded /\ StoredDepartment = None)
        => (RedirectedTo(SETUP_URL) /\ ~Called("call_next"))

C1_Witness ==
    /\ Guarded
    /\ ~cfg.BUDGET_CHECK_ENABLED
    /\ UserDoc(scope.MESOP_USER_EMAIL) = Doc(PyInt(7))
    /\ calls.dept = Returned(None)
    /\ RedirectedTo(SETUP_URL)

\* C2: with enforcement on, a guarded request of a user who has a department
\* whose budget lookup returned None is answered by a 302 to /budget_exceeded
\* and never reaches the downstream handler.
C2_MissingBudgetRedirectsToBlocked ==
    (/\ Guarded
     /\ cfg.BUDGET_CHECK_ENABLED
     /\ calls.dept.st = "returned" /\ StoredDepartment # None
     /\ calls.budget.st = "returned" /\ StoredBudget = None)
        => (RedirectedTo(BLOCKED_URL) /\ ~Called("call_next"))

C2_Witness ==
    /\ Guarded
    /\ cfg.BUDGET_CHECK_ENABLED
    /\ StoredDepartment = Str("Sales")
    /\ BudgetDoc("Sales") = NoDoc
    /\ calls.budget = Returned(None)
    /\ RedirectedTo(BLOCKED_URL)

\* the evaluation looked up department, budget and cost and got all three
AllThreeAvailable ==
    /\ Guarded
    /\ cfg.BUDGET_CHECK_ENABLED
    /\ calls.dept.st = "returned" /\ Truthy(calls.dept.v)
    /\ calls.budget.st = "returned" /\ calls.budget.v # None
    /\ calls.cost.st = "returned" /\ calls.cost.v # None

\* C3: with enforcement on and department, budget and cost all available, the
\* guard calls the downstream handler exactly when monthly_cost <= budget and
\* redirects to /budget_exceeded exactly when monthly_cost > budget.
C3_PassIffCostWithinBudget ==
    AllThreeAvailable
        => /\ Called("call_next") <=> PyLe(calls.cost.v, calls.budget.v)
           /\ RedirectedTo(BLOCKED_URL) <=> PyGt(calls.cost.v, calls.budget.v)

\* C4: when the cost oracle reports unavailable (None) to the guard, the guard
\* redirects to /budget_exceeded and does not call the downstream handler.
C4_CostUnavailableBlocks ==
    (Evaluated /\ calls.cost = Returned(None))
        => (RedirectedTo(BLOCKED_URL) /\ ~Called("call_next"))

C4_Witness ==
    /\ Guarded
    /\ calls.budget.st = "returned" /\ calls.budget.v # None
    /\ calls.cost = Returned(None)
    /\ RedirectedTo(BLOCKED_URL)

\* C5: for an exempt path the guard makes no department, budget or cost
\* lookup, calls the downstream handler, and the response the handler
\* returned leaves with the session_id cookie set to the session id.
C5_ExemptPathBypasses ==
    (Evaluated /\ ExemptPath(req.path))
        => /\ calls.trace = <<"call_next">>
           /\ resp.kind # "redirect"
           /\ resp.kind = "response" => resp.cookie = Str(scope.MESOP_SESSION_ID)

C5_Witness ==
    /\ Evaluated
    /\ req.path = <<"/","x",".","P","N","G">>
    /\ StoredDepartment = None
    /\ calls.trace = <<"call_next">>
    /\ resp.kind = "response"
    /\ resp.cookie = Str("c1")

\* C6: with enforcement off, a guarded request of a user whose department
\* lookup gave a department reaches the downstream handler, whatever the
\* budget store holds, and neither the budget nor the cost is looked up.
C6_EnforcementOffAllows ==
    (/\ Guarded
     /\ ~cfg.BUDGET_CHECK_ENABLED
     /\ calls.dept.st = "returned" /\ StoredDepartment # None)
        => /\ Called("call_next")
           /\ resp.kind # "redirect"
           /\ ~Called("get_department_budget")
           /\ ~Called("get_monthly_cloud_cost")

C6_Witness ==
    /\ Guarded
    /\ ~cfg.BUDGET_CHECK_ENABLED
    /\ StoredDepartment = Str("Sales")
    /\ BudgetDoc("Sales") = NoDoc
    /\ resp.kind = "response"
    /\ calls.trace = <<"get_user_department", "call_next">>

\* C7: a request to /healthz is answered by the fixed payload {"ok": true}
\* and is never redirected by the guard.
C7_HealthzAlwaysOk ==
    (Evaluated /\ req.path = HEALTHZ)
        => (resp.kind = "response" /\ resp.body = Str(HealthzBody))

\* C8: every URL the guard redirects to is exempt, so a client following the
\* guard's redirect is not redirected again: at most one redirect in a row.
C8_NoRedirectLoop ==
    /\ resp.kind = "redirect" => ExemptPath(resp.url)
    /\ req.via = "follow" => resp.kind # "redirect"
    /\ hops <= 1

C8_Witness ==
    /\ req.via = "follow"
    /\ req.path = SETUP_URL
    /\ hops = 1
    /\ resp.kind = "response"

\* the state of the guard's state machine the evaluation ended in
GuardStates ==
    { s \in {"BYPASS", "NEEDS_ONBOARDING", "BUDGET_BLOCKED", "ALLOWED"} :
        \/ s = "BYPASS" /\ ExemptPath(req.path) /\ Called("call_next")
        \/ s = "NEEDS_ONBOARDING" /\ RedirectedTo(SETUP_URL) /\ ~Called("call_next")
        \/ s = "BUDGET_BLOCKED" /\ RedirectedTo(BLOCKED_URL) /\ ~Called("call_next")
        \/ s = "ALLOWED" /\ ~ExemptPath(req.path) /\ Called("call_next") }

\* C9: every evaluation ends in exactly one of BYPASS, NEEDS_ONBOARDING,
\* BUDGET_BLOCKED, ALLOWED, and the downstream handler is reached only if the
\* path is exempt, or the user has a department and enforcement is off or the
\* budget is present, the cost available and cost <= budget.
C9_FourStatesAndHandlerOnlyWhenAllowed ==
    Evaluated
        => /\ Cardinality(GuardStates) = 1
           /\ Called("call_next")
                => \/ ExemptPath(req.path)
                   \/ /\ calls.dept.st = "returned" /\ Truthy(calls.dept.v)
                      /\ \/ ~cfg.BUDGET_CHECK_ENABLED
                         \/ /\ calls.budget.st = "returned" /\ calls.budget.v # None
                            /\ calls.cost.st = "returned" /\ calls.cost.v # None
                            /\ PyLe(calls.cost.v, calls.budget.v)

\* C10: a lookup that raises never escapes the guard nor lets the request
\* through: a fault of the department lookup gives a 302 to /setup_department,
\* a fault of the budget or cost lookup a 302 to /budget_exceeded, and in both
\* cases the downstream handler is not called.
C10_LookupFaultsRedirect ==
    /\ calls.dept.st = "raised" => (RedirectedTo(SETUP_URL) /\ ~Called("call_next"))
    /\ (calls.budget.st = "raised" \/ calls.cost.st = "raised")
         => (RedirectedTo(BLOCKED_URL) /\ ~Called("call_next"))
    /\ resp.kind = "exception" => Called("call_next")

C10_Witness ==
    /\ Guarded
    /\ calls.budget.st = "returned"
    /\ calls.cost.st = "raised"
    /\ RedirectedTo(BLOCKED_URL)

-----------------------------------------------------------------------------
(* Session cookie and identity *)

\* the email the header stands for when the provider prefix is stripped whole
StrippedEmail(header) ==
    IF ~header.present \/ header.value = <<>> THEN ANONYMOUS
    ELSE IF StartsWith(header.value, PROVIDER_PREFIX)
    THEN SubSeq(header.value, Len(PROVIDER_PREFIX) + 1, Len(header.value))
    ELSE header.value

\* C11: every response of a request that passed through carries a session_id
\* cookie whose value is the request's own session_id cookie when that is
\* non-empty and a token minted for the request otherwise, and that value is
\* the one stashed in the scope as MESOP_SESSION_ID.
C11_SessionCookieCarried ==
    resp.kind = "response"
        => /\ resp.cookie = Str(scope.MESOP_SESSION_ID)
           /\ IF req.cookie # None /\ req.cookie.v # ""
              THEN scope.MESOP_SESSION_ID = req.cookie.v
              ELSE scope.MESOP_SESSION_ID \in Uuids

C11_Witness ==
    /\ resp.kind = "response"
    /\ req.cookie = Str("")
    /\ resp.cookie.v \in Uuids

\* C12: the identity resolver gives anonymous@google.com for an absent or
\* empty header, the whole remainder after "accounts.google.com:" for a
\* prefixed header (also when the remainder contains ':'), and any other
\* header verbatim.
C12_ResolverStripsPrefix ==
    Evaluated => scope.MESOP_USER_EMAIL = StrippedEmail(req.header)

\* C13: the email stashed as MESOP_USER_EMAIL is a non-empty string for every
\* value of the header.
C13_ResolvedEmailNonEmpty ==
    Evaluated => scope.MESOP_USER_EMAIL # <<>>

-----------------------------------------------------------------------------
(* Properties of evaluate_budget *)

\* the lookups of a trace, without the downstream call
LookupsOf(trace) == SelectSeq(trace, LAMBDA f : f # "call_next")

\* department, budget, cost: each at most once, in this order, none skipped over
LookupPrefixes ==
    { SubSeq(<<"get_user_department", "get_department_budget", "get_monthly_cloud_cost">>, 1, n) :
        n \in 0..3 }

EvalCalled(f) == \E i \in DOMAIN status.trace : status.trace[i] = f

\* C14: every BudgetStatus evaluate_budget returns has within_budget non-null
\* only with budget and monthly_cost non-null, and then equal to
\* (monthly_cost <= budget) with error null; missing_user has department,
\* budget, monthly_cost and within_budget null; missing_budget has the
\* department set and the other three null; cost_unavailable has department
\* and budget set and the other two null; error is null exactly when
\* within_budget is non-null.
C14_BudgetStatusShape ==
    \A r \in {status.result, status.again} :
        r.st = "returned"
            => LET s == r.v
               IN  /\ s.within_budget # None
                        => /\ s.budget # None /\ s.monthly_cost # None
                           /\ s.within_budget.v = PyLe(s.monthly_cost, s.budget)
                           /\ s.error = None
                   /\ s.error = Str("missing_user")
                        => /\ s.department = None /\ s.budget = None
                           /\ s.monthly_cost = None /\ s.within_budget = None
                   /\ s.error = Str("missing_budget")
                        => /\ s.department # None /\ s.budget = None
                           /\ s.monthly_cost = None /\ s.within_budget = None
                   /\ s.error = Str("cost_unavailable")
                        => /\ s.department # None /\ s.budget # None
                           /\ s.monthly_cost = None /\ s.within_budget = None
                   /\ s.error \in {None, Str("missing_user"), Str("missing_budget"),
                                   Str("cost_unavailable")}
                   /\ (s.error = None) <=> (s.within_budget # None)

C14_Witness ==
    /\ status.result.st = "returned"
    /\ status.result.v.error = Str("cost_unavailable")
    /\ status.result.v.budget = Num(1)

\* C15: in the guard and in evaluate_budget alike, one evaluation makes the
\* department, budget and cost lookups at most once each and in that order;
\* the budget lookup is made only after the department lookup returned a
\* department, and the cost oracle is called only after the budget lookup
\* returned a budget.
C15_LookupsShortCircuit ==
    /\ LookupsOf(calls.trace) \in LookupPrefixes
    /\ Called("get_department_budget")
         => calls.dept.st = "returned" /\ calls.dept.v \notin {None, Str("")}
    /\ Called("get_monthly_cloud_cost")
         => calls.budget.st = "returned" /\ calls.budget.v # None
    /\ status.trace \in LookupPrefixes
    /\ EvalCalled("get_department_budget")
         => status.dept.st = "returned" /\ status.dept.v \notin {None, Str("")}
    /\ EvalCalled("get_monthly_cloud_cost")
         => status.budget.st = "returned" /\ status.budget.v # None

C15_Witness ==
    /\ status.trace = <<"get_user_department", "get_department_budget">>
    /\ status.budget = Returned(None)
    /\ status.result.st = "returned"

-----------------------------------------------------------------------------
(* Properties of the cost oracle *)

\* how many times the oracle call on record issued the query q
Attempts(q) == Cardinality({ i \in DOMAIN oracle.result.queries : oracle.result.queries[i] = q })

Unavailable == oracle.called /\ oracle.result.st = "returned" /\ oracle.result.v = None

PrimaryFailed == oracle.called /\ Attempts("primary") > 0 /\ oracle.primary.r = "fail"

\* when the primary query failed, the fallback ran once and its result, if it
\* produced one, is what the call returned
FallbackAfterPrimaryFailure ==
    PrimaryFailed
        => /\ Attempts("fallback") = 1
           /\ oracle.fallback.r = "norow"
                => oracle.result.st = "returned" /\ oracle.result.v = Num(0)
           /\ oracle.fallback.r = "row"
                => /\ oracle.result.st = "returned"
                   /\ oracle.result.v = IF oracle.fallback.total = None
                                        THEN Num(0) ELSE oracle.fallback.total

\* the identifiers get_monthly_cloud_cost needs are all there
BillingConfigured ==
    /\ cfg.BILLING_PROJECT_ID # "" \/ cfg.PROJECT_ID # ""
    /\ cfg.BILLING_DATASET # ""
    /\ cfg.BILLING_TABLE # ""
    /\ cfg.PROJECT_ID # ""

OracleDisabled ==
    /\ oracle.called => oracle.result = [st |-> "returned", v |-> None, queries |-> <<>>]
    /\ EvalCalled("get_monthly_cloud_cost")
         => /\ status.cost = Returned(None)
            /\ status.result.st = "returned"
            /\ status.result.v.error = Str("cost_unavailable")
    /\ Called("get_monthly_cloud_cost")
         => /\ calls.cost = Returned(None)
            /\ RedirectedTo(BLOCKED_URL)
            /\ ~Called("call_next")

\* C18 (as claimed): with any one of BILLING_PROJECT_ID, BILLING_DATASET and
\* BILLING_TABLE absent, get_monthly_cloud_cost issues no query and returns
\* None without raising, evaluate_budget yields cost_unavailable and the
\* guard blocks.
C18_MissingIdentifierDisablesOracle ==
    (cfg.BILLING_PROJECT_ID = "" \/ cfg.BILLING_DATASET = "" \/ cfg.BILLING_TABLE = "")
        => OracleDisabled

\* C18 (amended): with BILLING_DATASET or BILLING_TABLE absent, or with
\* BILLING_PROJECT_ID absent and no PROJECT_ID to stand in for it,
\* get_monthly_cloud_cost issues no query and returns None without raising,
\* evaluate_budget yields cost_unavailable and the guard blocks.
C18_MissingIdentifierWithoutDefaultDisablesOracle ==
    ((cfg.BILLING_PROJECT_ID = "" /\ cfg.PROJECT_ID = "")
       \/ cfg.BILLING_DATASET = "" \/ cfg.BILLING_TABLE = "")
        => OracleDisabled

C18_Witness ==
    /\ cfg.BILLING_DATASET = "" /\ cfg.BILLING_TABLE # ""
    /\ cfg.BILLING_PROJECT_ID # "" /\ cfg.PROJECT_ID # ""
    /\ Called("get_monthly_cloud_cost")
    /\ RedirectedTo(BLOCKED_URL)

-----------------------------------------------------------------------------
(* Properties of the page handlers *)

\* the handler named h has just run
Ran(h) == page.handler = "none" /\ page'.handler = h

\* the text is a decimal literal of a strictly positive amount
PositiveAmountText(txt) == \E n \in 1..(MaxBudget + 1) : txt = ToString(n)

\* C19: after on_click_save has run with a department and a role selected
\* and no backend fault, the department store holds the selected department
\* for the user's email, so that the guard no longer finds the user without
\* a department, and the handler has navigated to /budget_exceeded or /home
\* instead of opening the error dialog.
C19_SaveCreatesDepartmentRecord ==
    (/\ page.handler = "setup_department"
     /\ click.selected_department # None /\ click.selected_role # None
     /\ ~click.fault /\ status.result.st # "raised")
        => /\ click.email \in DOMAIN users
           /\ users[click.email] = [exists |-> TRUE, field |-> click.selected_department]
           /\ ~page.error_dialog_open
           /\ page.navigate \in {"/budget_exceeded", "/home"}

\* C20: every amount on_click_update_budget writes to the budget store is a
\* strictly positive number, and when no department is selected, or the
\* input is not a number, or the amount is <= 0, the handler opens the error
\* dialog and leaves the budget store unchanged.
C20_WrittenBudgetsPositive ==
    [][ (Ran("budget_exceeded") \/ Ran("access_restricted"))
            => /\ \A d \in DOMAIN budgets' :
                    (d \notin DOMAIN budgets \/ budgets'[d] # budgets[d])
                        => /\ budgets'[d].exists
                           /\ budgets'[d].field.t = "float"
                           /\ budgets'[d].field.v > 0
               /\ (click'.selected_department = None
                     \/ ~PositiveAmountText(click'.new_budget_input))
                    => (page'.error_dialog_open /\ budgets' = budgets) ]_vars

\* C21: a budget record is created or updated only by an admin: a click on
\* Update Budget on the blocked page by a user whose role is not admin, and
\* to whom the page shows the button because the user has a department,
\* changes no department's budget.
C21_OnlyAdminUpdatesBudget ==
    [][ (/\ Ran("budget_exceeded")
         /\ click'.role # Str("admin")
         /\ get_user_department(click'.email) # None)
            => budgets' = budgets ]_vars

-----------------------------------------------------------------------------
(* The path classifier, and the guard against evaluate_budget *)

\* C22: the guard treats a path as exempt, whoever asks and whatever the
\* stores hold, exactly when the path starts with a public prefix, compared
\* case-sensitively, or the lower-cased path ends with an asset extension:
\* these requests and no others pass without a department lookup.
C22_ExemptIffPrefixOrExtension ==
    Evaluated
        => (~Called("get_user_department")
              <=> \/ \E p \in public_prefixes : StartsWith(req.path, p)
                  \/ \E e \in asset_exts : EndsWith(Lower(req.path), e))

C22_Witness ==
    /\ Evaluated
    /\ req.path = <<"/","A","P","I","/","x">>
    /\ req.header.present
    /\ Called("get_user_department")

\* what evaluate_budget returns from the lookups the guard made
GuardStatus == evaluate_budget(scope.MESOP_USER_EMAIL, calls.dept, calls.budget, calls.cost)

NoLookupRaised ==
    calls.dept.st # "raised" /\ calls.budget.st # "raised" /\ calls.cost.st # "raised"

\* the guard's outcome is the one the status s of evaluate_budget calls for
AgreesWith(s) ==
    /\ Called("call_next") <=> (s.within_budget # None /\ s.within_budget.v)
    /\ RedirectedTo(SETUP_URL) <=> s.error = Str("missing_user")
    /\ RedirectedTo(BLOCKED_URL)
         <=> \/ s.error \in {Str("missing_budget"), Str("cost_unavailable")}
             \/ (s.within_budget # None /\ ~s.within_budget.v)

\* C23: with enforcement enabled and a non-exempt path, the guard passes the
\* request through iff evaluate_budget gives within_budget true for the same
\* stores and oracle answer, redirects to /setup_department iff its error is
\* missing_user, and redirects to /budget_exceeded iff its error is
\* missing_budget or cost_unavailable or within_budget is false.
C23_GuardAgreesWithEvaluateBudget ==
    (Guarded /\ cfg.BUDGET_CHECK_ENABLED /\ NoLookupRaised) => AgreesWith(GuardStatus.v)

-----------------------------------------------------------------------------
(* Fail-closed navigation, the client cache, failure reports *)

\* a page handler has run and its evaluate_budget found the cost unavailable
CostUnavailableInHandler ==
    /\ page.handler \in {"setup_department", "budget_exceeded", "access_restricted"}
    /\ status.caller = page.handler
    /\ status.result.st = "returned"
    /\ status.result.v.error = Str("cost_unavailable")

C26_FailureReportLeavesBudgetsUnchanged ==
    [][ (/\ Ran("budget_exceeded") \/ Ran("access_restricted")
         /\ page'.error_dialog_open
         /\ page'.error_message = "Failed to update budget")
            => budgets' = budgets ]_vars

\* the threads that have their client
Served == { t \in Threads : firebase.pc[t] = "done" }

\* C25: under every interleaving of the threads, firebase_admin.initialize_app
\* is invoked at most once, at most one Firestore client is created per
\* database id, all callers for the same database id receive the same client,
\* and an absent or empty database id stands for "(default)".
C25_OneAppOneClientPerDatabase ==
    /\ firebase.initialize_app_calls <= 1
    /\ \A k \in DOMAIN firebase.created : firebase.created[k] <= 1
    /\ \A t, u \in Served :
         firebase._database_id[t] = firebase._database_id[u]
            => firebase.returned[t] = firebase.returned[u]
    /\ \A t \in Threads :
         (firebase.pc[t] # "idle" /\ firebase.database_id[t] \in {None, Str("")})
            => firebase._database_id[t] = "(default)"

====
